---- MODULE Spec2Model ----
(***************************************************************************)
(* A model of the Slack deployment notifier: the entry point (index.js)    *)
(* and src/utils.js (buildSlackAttachments, getLinearTicketInfo,           *)
(* getCurrentDeployment, getCommitsBetween, getPRsForCommits,              *)
(* calculateEnvironmentName).                                              *)
(*                                                                         *)
(* The program is one chain of async functions.  Every await of an         *)
(* external call (GitHub, Linear, Slack) is a point where the environment  *)
(* chooses the response; every return of an async function to its awaiting *)
(* caller is a step of its own.  JavaScript strings are TLA+ strings, read *)
(* character by character; null is the empty sequence None and a non-null  *)
(* value v is <<v>> where the code tests for null.                         *)
(***************************************************************************)
EXTENDS Integers, Sequences, FiniteSets, TLC

VARIABLES
    messageId,              \* input message_id ("" when not given)
    environment,            \* input environment
    linear,                 \* Linear: ticket id -> what a lookup may answer
    pc,                     \* where the invocation is
    deployments,            \* getCurrentDeployment: the listed deployments
    depIdx,                 \* getCurrentDeployment: index of the loop
    statusLog,              \* getCurrentDeployment: statuses listed so far
    successfulDeployments,  \* getCurrentDeployment: its local array
    resolverOutcome,        \* "running", "returned" or "error" (the catch)
    sawSuccess,             \* a listed status had state "success"
    currentDeployment,      \* buildSlackAttachments: None or <<deployment>>
    compareCalls,           \* the compareCommits requests made
    comparison,             \* the compareCommits response (None before)
    commits,                \* buildSlackAttachments: its commits array
    commitIdx,              \* getPRsForCommits: index of the loop
    prCalls,                \* the commit_sha of every PR lookup requested
    prLog,                  \* getPRsForCommits: request and response per commit
    recLog,                 \* per record of prs: its pull request and lookups
    prs,                    \* getPRsForCommits: the Set prs, in insertion order
    pullRequests,           \* getPRsForCommits: the list of the current commit
    prIdx,                  \* getPRsForCommits: index of the loop over the list
    linearTicketInfos,      \* getPRsForCommits: the array of the current pr
    branchTicketInfo,       \* getPRsForCommits: None or <<info>>
    username,               \* getPRsForCommits: None or <<login>>
    linkedPr,               \* getPRsForCommits: None or <<pull request>>
    ticketIds,              \* the tokens the current for loop has yet to take
    issueCalls,             \* the linearClient.issue calls of the current pr
    linked,                 \* the answer of pulls.get for the current pr
    userCalls,              \* users.getByUsername requests made, per handle
    pending,                \* handles whose lookup has not answered yet
    userErrors,             \* handles whose lookup failed
    usernameToNameMap,      \* buildSlackAttachments: login -> name
    attachments,            \* None, or the array buildSlackAttachments returned
    chatCalls,              \* the Slack chat calls made
    chatResponse,           \* None, or <<the answer to the chat call>>
    output,                 \* core.setOutput("message_id", ...): None or <<ts>>
    failed                  \* core.setFailed was called

inputVars == <<messageId, environment, linear>>
resolverVars == <<deployments, depIdx, statusLog, successfulDeployments,
                  resolverOutcome, sawSuccess, currentDeployment>>
rangeVars == <<compareCalls, comparison, commits>>
prLocals == <<pullRequests, prIdx, linearTicketInfos, branchTicketInfo, username,
              linkedPr, ticketIds, issueCalls, linked>>
prVars == <<commitIdx, prCalls, prLog, recLog, prs, prLocals>>
userVars == <<userCalls, pending, userErrors, usernameToNameMap>>
mainVars == <<attachments, chatCalls, chatResponse, output, failed>>

vars == <<inputVars, pc, resolverVars, rangeVars, prVars, userVars, mainVars>>

None == <<>>

(***************************************************************************)
(* Bounds of the model.                                                    *)
(***************************************************************************)
MaxDeployments == 2
MaxTime == 2
MaxStatuses == 2
MaxCommits == 2
MaxPRs == 2             \* pull requests listed in one invocation, in all
MaxFmtPRs == 2
MaxFmtTickets == 9

(***************************************************************************)
(* Strings and the three regular expressions of utils.js.                  *)
(***************************************************************************)
Ch(s, i) == SubSeq(s, i, i)

LowerLetters == {"a","b","c","d","e","f","g","h","i","j","k","l","m",
                 "n","o","p","q","r","s","t","u","v","w","x","y","z"}
UpperLetters == {"A","B","C","D","E","F","G","H","I","J","K","L","M",
                 "N","O","P","Q","R","S","T","U","V","W","X","Y","Z"}
Letters == LowerLetters \cup UpperLetters
Digits == {"0","1","2","3","4","5","6","7","8","9"}

\* The last index of the longest run of characters of class starting at i
\* (i - 1 when s[i] is not in class): what a greedy X+ consumes.
RECURSIVE RunEnd(_, _, _)
RunEnd(s, i, class) ==
    IF i <= Len(s) /\ Ch(s, i) \in class THEN RunEnd(s, i + 1, class) ELSE i - 1

\* [a-zA-Z]+-\d+ tried at position i: the index of the last character of the
\* match, 0 when there is none.
TicketMatchAt(s, i) ==
    LET a == RunEnd(s, i, Letters) IN
    IF a < i \/ a + 1 > Len(s) \/ Ch(s, a + 1) # "-" THEN 0
    ELSE LET d == RunEnd(s, a + 2, Digits) IN
         IF d < a + 2 THEN 0 ELSE d

\* branch.match(/^([a-zA-Z]+-\d+)/): None or <<group 1>>.
BranchTicketIdMatch(branch) ==
    LET e == TicketMatchAt(branch, 1) IN
    IF e = 0 THEN None ELSE <<SubSeq(branch, 1, e)>>

\* text.match(/[a-zA-Z]+-\d+/g) || []: every match, left to right, each
\* search starting after the previous match.
RECURSIVE ScanTickets(_, _)
ScanTickets(s, i) ==
    IF i > Len(s) THEN <<>>
    ELSE LET e == TicketMatchAt(s, i) IN
         IF e = 0 THEN ScanTickets(s, i + 1)
         ELSE <<SubSeq(s, i, e)>> \o ScanTickets(s, e + 1)

TicketIdMatches(text) == ScanTickets(text, 1)

\* The first index of the longest run of characters of class ending at i.
RECURSIVE RunStart(_, _, _)
RunStart(s, i, class) ==
    IF i >= 1 /\ Ch(s, i) \in class THEN RunStart(s, i - 1, class) ELSE i + 1

DigitValue(c) ==
    CASE c = "0" -> 0 [] c = "1" -> 1 [] c = "2" -> 2 [] c = "3" -> 3
      [] c = "4" -> 4 [] c = "5" -> 5 [] c = "6" -> 6 [] c = "7" -> 7
      [] c = "8" -> 8 [] c = "9" -> 9

\* parseInt(digits, 10) of a string of decimal digits.
RECURSIVE ParseInt(_)
ParseInt(ds) ==
    IF Len(ds) = 0 THEN 0
    ELSE 10 * ParseInt(SubSeq(ds, 1, Len(ds) - 1)) + DigitValue(Ch(ds, Len(ds)))

\* title.match(/\(#(\d+)\)$/): None or <<parseInt(group 1, 10)>>.
TitleIdMatch(title) ==
    LET n == Len(title) IN
    IF n < 4 \/ Ch(title, n) # ")" THEN None
    ELSE LET k == RunStart(title, n - 1, Digits) IN
         IF k > n - 1 \/ k < 3 \/ Ch(title, k - 1) # "#" \/ Ch(title, k - 2) # "("
         THEN None
         ELSE <<ParseInt(SubSeq(title, k, n - 1))>>

StartsWith(s, p) == Len(s) >= Len(p) /\ SubSeq(s, 1, Len(p)) = p

\* pr.base.ref.match(/^release-(patch|hotfix)-/)
ReleaseBranchMatch(ref) ==
    StartsWith(ref, "release-patch-") \/ StartsWith(ref, "release-hotfix-")


Includes(s, sub) ==
    \E i \in 1..(Len(s) - Len(sub) + 1) : SubSeq(s, i, i + Len(sub) - 1) = sub

LowerAlphabet == "abcdefghijklmnopqrstuvwxyz"
UpperAlphabet == "ABCDEFGHIJKLMNOPQRSTUVWXYZ"

IndexIn(alphabet, c) == CHOOSE i \in 1..Len(alphabet) : Ch(alphabet, i) = c

LowerChar(c) ==
    IF c \in UpperLetters THEN Ch(LowerAlphabet, IndexIn(UpperAlphabet, c)) ELSE c
UpperChar(c) ==
    IF c \in LowerLetters THEN Ch(UpperAlphabet, IndexIn(LowerAlphabet, c)) ELSE c

RECURSIVE ToLowerCase(_)
ToLowerCase(s) ==
    IF Len(s) = 0 THEN ""
    ELSE LowerChar(Ch(s, 1)) \o ToLowerCase(SubSeq(s, 2, Len(s)))

RECURSIVE ToUpperCase(_)
ToUpperCase(s) ==
    IF Len(s) = 0 THEN ""
    ELSE UpperChar(Ch(s, 1)) \o ToUpperCase(SubSeq(s, 2, Len(s)))

\* name.split(" ")[0]
FirstWord(s) ==
    LET stops == {i \in 1..Len(s) : Ch(s, i) = " "} IN
    IF stops = {} THEN s
    ELSE SubSeq(s, 1, (CHOOSE i \in stops : \A j \in stops : i <= j) - 1)

DigitChars == "0123456789"

\* The decimal rendering of a number in a template literal.
RECURSIVE NumberToString(_)
NumberToString(n) ==
    IF n < 10 THEN Ch(DigitChars, n + 1)
    ELSE NumberToString(n \div 10) \o Ch(DigitChars, (n % 10) + 1)

(***************************************************************************)
(* calculateEnvironmentName                                                *)
(***************************************************************************)
calculateEnvironmentName(env) ==
    IF Includes(ToLowerCase(env), "qa") THEN "QA"
    ELSE IF Includes(ToLowerCase(env), "prod") THEN ":warning: PROD :warning:"
    ELSE ToUpperCase(env)

(***************************************************************************)
(* The invocation's inputs and context.                                    *)
(***************************************************************************)
Owner == "acme"
Repo == "api"
NewSha == "h0"                      \* github.context.sha
DefaultBranchName == "main"         \* input default_branch_name
ServiceName == "api-service"        \* input service_name
Status == "SUCCESS"                 \* input status
Color == "#36a64f"                  \* input color
ChannelId == "C1"                   \* input channel_id
MessageIds == {"", "170.1"}         \* input message_id: absent or given
Environments == {"prod", "QA-2", "dev"}

(***************************************************************************)
(* Linear.  Every linearClient.issue(id) is a call of its own to the       *)
(* service: it answers with an issue or throws, whatever an earlier call   *)
(* for the same id did; the issue's identifier need not be the id asked    *)
(* for (here it is in another case).  A client maps an id to the answers a *)
(* call for it may get.                                                    *)
(***************************************************************************)
Issue(identifier) ==
    [identifier |-> identifier,
     url |-> "https://linear.app/i/" \o identifier,
     title |-> "Issue " \o identifier]

TicketIds == {"A-1", "b-2"}
Thrown == [ok |-> FALSE]
Resolved(v) == [ok |-> TRUE, data |-> v]

\* A call is answered with the issue of the id, or throws.
LinearFlaky == [t \in TicketIds |-> {Thrown, Resolved(Issue(ToUpperCase(t)))}]

\* await linearClient.issue(ticketId): the answers this call may get.
LinearIssue(client, ticketId) ==
    IF ticketId \in DOMAIN client THEN client[ticketId] ELSE {Thrown}

(***************************************************************************)
(* getLinearTicketInfo: None, or <<[id, url, title]>>.  Without a match of *)
(* the pattern it returns null and calls nothing (lines 260-264); with one *)
(* it returns what the answer r of linearClient.issue gives (lines         *)
(* 265-276).                                                               *)
(***************************************************************************)
getLinearTicketInfo(r) ==
    IF r.ok
    THEN <<[id |-> r.data.identifier, url |-> r.data.url, title |-> r.data.title]>>
    ELSE None


(***************************************************************************)
(* The GitHub API: what the calls of one invocation may answer.            *)
(***************************************************************************)
DeploymentStates == {"success", "failure"}

\* created_at is held as the time value new Date(created_at) gives.
Deployment(id, t) ==
    [id |-> id, sha |-> "d" \o NumberToString(id), created_at |-> t]

DeploymentLists ==
    UNION {{[i \in 1..n |-> Deployment(i, ts[i])] : ts \in [1..n -> 1..MaxTime]}
           : n \in 0..MaxDeployments}

StatusLists ==
    UNION {{[k \in 1..n |-> [state |-> st[k]]] : st \in [1..n -> DeploymentStates]}
           : n \in 0..MaxStatuses}

ParentLists == {<<>>, <<"p1">>, <<"p1", "p2">>}

ComparisonLists ==
    UNION {{[i \in 1..n |-> [sha |-> "c" \o NumberToString(i), parents |-> ps[i]]]
            : ps \in [1..n -> ParentLists]}
           : n \in 0..MaxCommits}

PR(number, baseRef, headRef, title, body, login) ==
    [number |-> number, title |-> title, body |-> body,
     html_url |-> "https://github.com/acme/api/pull/" \o NumberToString(number),
     base |-> [ref |-> baseRef], head |-> [ref |-> headRef],
     user |-> [login |-> login]]

PRSamples ==
    {PR(1, "main", "A-1-cache", "A-1 cache", "see b-2", "ann"),
     PR(2, "release-hotfix-7", "fix", "A-1 again", "A-1", "bob"),
     PR(3, "main", "port", "Port A-1 (#1)", "", "bob"),
     PR(4, "dev", "A-1", "wip", "", "ann")}

PullRequestLists(max) == UNION {[1..n -> PRSamples] : n \in 0..max}

Logins == {p.user.login : p \in PRSamples}

\* user.name of users.getByUsername: null or a string.
UserNames == {None, <<"Ann Lee">>}

ResponseTs == {"170.1", "170.2"}    \* the ts of a chat response

ClockMillis == {1999, 2000}         \* Date.now() when the attachment is built

(***************************************************************************)
(* getCurrentDeployment                                                    *)
(***************************************************************************)
\* statuses.some((status) => status.state === "success")
SomeSuccess(statuses) ==
    \E k \in 1..Len(statuses) : statuses[k].state = "success"

CompareOldestFirst(a, b) == a.created_at - b.created_at

\* (a, b) => new Date(b.created_at) - new Date(a.created_at)
CompareDeployments(a, b) == b.created_at - a.created_at

\* Array.prototype.sort is stable: x goes behind every element that does not
\* compare after it.
InsertSorted(sorted, x) ==
    LET before == {i \in 1..Len(sorted) : CompareDeployments(sorted[i], x) <= 0}
        n == Cardinality(before)
    IN  SubSeq(sorted, 1, n) \o <<x>> \o SubSeq(sorted, n + 1, Len(sorted))

RECURSIVE SortDeployments(_)
SortDeployments(ds) ==
    IF ds = <<>> THEN <<>>
    ELSE InsertSorted(SortDeployments(SubSeq(ds, 1, Len(ds) - 1)), ds[Len(ds)])

\* Lines 304-310: the value getCurrentDeployment returns after its loop.
LatestSuccessful(successful) ==
    IF Len(successful) > 0 THEN <<SortDeployments(successful)[1]>> ELSE None

CatchReturnsLatest(successful) == LatestSuccessful(successful)

\* Lines 311-314: the catch returns null whatever was collected.
ResolverCatch(successful) == None

(***************************************************************************)
(* getCommitsBetween                                                       *)
(***************************************************************************)
\* comparison.commits.filter((commit) => commit.parents.length === 1)
IsKept(commit) == Len(commit.parents) = 1

FilterCommits(cs) == SelectSeq(cs, IsKept)

(***************************************************************************)
(* getPRsForCommits.  The function gives the thread back at every await;   *)
(* f is its frame (the locals, prs and where it waits), and each operator  *)
(* below runs the code from one point up to the next call of GitHub or     *)
(* Linear, or to the return.                                               *)
(***************************************************************************)
Retained(pr) ==
    pr.base.ref = DefaultBranchName \/ ReleaseBranchMatch(pr.base.ref)

NotRequested == [requested |-> FALSE, ok |-> FALSE]
LinkedThrown == [requested |-> TRUE, ok |-> FALSE]
LinkedOk(p) == [requested |-> TRUE, ok |-> TRUE, data |-> p]

\* octokit.pulls.get({pull_number}): throws, or answers with that pull request.
PullsGet(number) ==
    {LinkedThrown} \cup {LinkedOk(p) : p \in {q \in PRSamples : q.number = number}}

HasTicket(infos, id) == \E i \in 1..Len(infos) : infos[i].id = id

\* Line 364: if (branchTicketInfo) linearTicketInfos.push(branchTicketInfo)
PushBranch(infos, info) ==
    IF info # None THEN Append(infos, info[1]) ELSE infos

\* Lines 375-379: a ticket of the text is pushed unless it is the branch's.
PushAdditional(infos, info, branchInfo) ==
    IF info # None /\ (branchInfo = None \/ info[1].id # branchInfo[1].id)
    THEN Append(infos, info[1])
    ELSE infos

\* Lines 397-404 and 413-420: a ticket is pushed unless its id is in the list.
PushUnseen(infos, info) ==
    IF info # None /\ ~HasTicket(infos, info[1].id)
    THEN Append(infos, info[1])
    ELSE infos

\* Line 405: the text is built from pr, the pull request of the commit.
LinkedPrTitleAndBodyText(pr, linkedPullRequest) == pr.title \o " " \o pr.body

\* prs.add({...}): the object literal is a new object each time and a Set of
\* objects compares by identity, so add never finds it present.
SetAdd(set, obj) == Append(set, obj)

Frame ==
    [pc |-> pc, commitIdx |-> commitIdx, prCalls |-> prCalls, recLog |-> recLog,
     prs |-> prs, pullRequests |-> pullRequests, prIdx |-> prIdx,
     linearTicketInfos |-> linearTicketInfos,
     branchTicketInfo |-> branchTicketInfo, username |-> username,
     linkedPr |-> linkedPr, ticketIds |-> ticketIds, issueCalls |-> issueCalls,
     linked |-> linked]

\* The locals of the body of the loop over pullRequests, before an iteration.
NoPR(f) ==
    [f EXCEPT !.linearTicketInfos = <<>>, !.branchTicketInfo = None,
              !.username = None, !.linkedPr = None, !.ticketIds = <<>>,
              !.issueCalls = <<>>, !.linked = NotRequested]

\* for (const commit of commits), at f.commitIdx: the next lookup is
\* requested (lines 347-352), or the function returns (line 445).
NextCommit(f) ==
    LET g == [NoPR(f) EXCEPT !.pullRequests = <<>>, !.prIdx = 0] IN
    IF f.commitIdx > Len(commits) THEN [g EXCEPT !.pc = "correlated"]
    ELSE [g EXCEPT !.pc = "listPRs",
                   !.prCalls = Append(@, commits[f.commitIdx].sha)]

RECURSIVE NextPR(_)
RECURSIVE AfterBranch(_)
RECURSIVE AdditionalLoop(_)
RECURSIVE AfterAdditional(_)
RECURSIVE AfterLinkedBranch(_)
RECURSIVE LinkedLoop(_)
RECURSIVE AddRecord(_)

\* Lines 429-435, and the loop over pullRequests goes on.
AddRecord(f) ==
    LET pr == f.pullRequests[f.prIdx] IN
    NextPR([NoPR(f) EXCEPT
              !.prs = SetAdd(@, [number |-> pr.number, title |-> pr.title,
                                 url |-> pr.html_url, username |-> f.username[1],
                                 linearTickets |-> f.linearTicketInfos]),
              !.recLog = Append(@, [pr |-> pr, linked |-> f.linked,
                                    issueCalls |-> f.issueCalls]),
              !.prIdx = @ + 1])

\* Lines 407-422: the loop over linkedPrTickets, up to its next lookup.
LinkedLoop(f) ==
    IF f.ticketIds = <<>> THEN AddRecord(f)
    ELSE IF BranchTicketIdMatch(Head(f.ticketIds)) = None
         THEN LinkedLoop([f EXCEPT !.ticketIds = Tail(@)])
         ELSE [f EXCEPT !.pc = "issueLinkedAdditional"]

\* Lines 405-407: the tokens the loop over linkedPrTickets takes.
AfterLinkedBranch(f) ==
    LinkedLoop([f EXCEPT !.ticketIds =
        TicketIdMatches(LinkedPrTitleAndBodyText(f.pullRequests[f.prIdx],
                                                 f.linkedPr[1]))])

\* Lines 382-391: the author, and the linked pull request is asked for when
\* the title ends with (#number).
AfterAdditional(f) ==
    LET pr == f.pullRequests[f.prIdx]
        g == [f EXCEPT !.username = <<pr.user.login>>]
    IN  IF TitleIdMatch(pr.title) = None THEN AddRecord(g)
        ELSE [g EXCEPT !.pc = "pullsGet"]

\* Lines 370-380: the loop over ticketIdMatches, up to its next lookup.
AdditionalLoop(f) ==
    IF f.ticketIds = <<>> THEN AfterAdditional(f)
    ELSE IF BranchTicketIdMatch(Head(f.ticketIds)) = None
         THEN AdditionalLoop([f EXCEPT !.ticketIds = Tail(@)])
         ELSE [f EXCEPT !.pc = "issueAdditional"]

\* Lines 366-368
AfterBranch(f) ==
    LET pr == f.pullRequests[f.prIdx] IN
    AdditionalLoop([f EXCEPT !.ticketIds =
                                 TicketIdMatches(pr.title \o " " \o pr.body)])

\* Lines 354-364: the loop over pullRequests at f.prIdx, up to the lookup of
\* the branch's ticket; behind the last one the loop over commits goes on.
NextPR(f) ==
    IF f.prIdx > Len(f.pullRequests)
    THEN NextCommit([f EXCEPT !.commitIdx = @ + 1])
    ELSE LET pr == f.pullRequests[f.prIdx] IN
         IF ~Retained(pr) THEN NextPR([f EXCEPT !.prIdx = @ + 1])
         ELSE IF BranchTicketIdMatch(pr.head.ref) = None
              THEN AfterBranch(f)
              ELSE [f EXCEPT !.pc = "issueBranch"]

CommitIdxBreak(idx, n) == n + 1

\* Lines 438-443: the catch is inside the loop, which goes on with the next
\* commit.
CommitIdxAfterCatch(idx, n) == idx + 1


(***************************************************************************)
(* buildSlackAttachments: author names and the fields.                     *)
(***************************************************************************)
RECURSIVE MapUsernames(_)
MapUsernames(list) ==          \* prs.map((pr) => pr.username)
    IF list = <<>> THEN <<>>
    ELSE <<Head(list).username>> \o MapUsernames(Tail(list))

RECURSIVE Distinct(_, _)
Distinct(names, seen) ==
    IF names = <<>> THEN seen
    ELSE Distinct(Tail(names),
                  IF \E i \in 1..Len(seen) : seen[i] = Head(names) THEN seen
                  ELSE Append(seen, Head(names)))

UsernamesUnmerged(list) == MapUsernames(list)

\* Line 179 and Array.from(usernames): a Set of strings keeps one of each
\* value, in insertion order.
Usernames(list) == Distinct(MapUsernames(list), <<>>)

Occurrences(names, u) == Cardinality({i \in 1..Len(names) : names[i] = u})

\* usernameToNameMap.get(pr.username)?.split(" ")?.[0] || pr.username
UserFirstName(nameMap, login) ==
    IF login \in DOMAIN nameMap /\ nameMap[login] # None
          /\ FirstWord(nameMap[login][1]) # ""
    THEN FirstWord(nameMap[login][1])
    ELSE login

\* U+2022, the bullet that starts a line, written as its escape: the strings
\* of the model are ASCII.
Bullet == "\\u2022"

TicketLine(ticket, pr, userFirstName) ==
    Bullet \o " *" \o ticket.id \o "* - <" \o ticket.url \o " | " \o ticket.title
        \o "> (<" \o pr.url \o " | PR>) (" \o userFirstName \o ")"

NoTicketLine(pr, userFirstName) ==
    Bullet \o " *No ticket* - <" \o pr.url \o " | " \o pr.title \o "> ("
        \o userFirstName \o ")"

\* Lines 210-218: the lines of one pull request.
LinesOf(pr, nameMap) ==
    LET userFirstName == UserFirstName(nameMap, pr.username) IN
    IF Len(pr.linearTickets) > 0
    THEN [k \in 1..Len(pr.linearTickets) |->
             TicketLine(pr.linearTickets[k], pr, userFirstName)]
    ELSE <<NoTicketLine(pr, userFirstName)>>

RECURSIVE FlatMapLines(_, _)
FlatMapLines(list, nameMap) ==
    IF list = <<>> THEN <<>>
    ELSE LinesOf(Head(list), nameMap) \o FlatMapLines(Tail(list), nameMap)

GroupSize == 8

\* Lines 221-228: the reduce; index counts from 0, acc from 1.
RECURSIVE GroupLines(_, _, _)
GroupLines(lines, index, acc) ==
    IF index >= Len(lines) THEN acc
    ELSE LET groupIndex == index \div GroupSize
             line == lines[index + 1]
         IN  GroupLines(lines, index + 1,
                 IF groupIndex + 1 > Len(acc) THEN Append(acc, <<line>>)
                 ELSE [acc EXCEPT ![groupIndex + 1] = Append(@, line)])

RECURSIVE Join(_, _)
Join(strs, sep) ==
    IF strs = <<>> THEN ""
    ELSE IF Len(strs) = 1 THEN strs[1]
    ELSE strs[1] \o sep \o Join(Tail(strs), sep)

GroupTitleFromIndex(index) ==
    IF index = 0 THEN "Pull Requests and Linear Tickets"
    ELSE "Pull Requests and Linear Tickets (" \o NumberToString(index) \o ")"

\* Lines 232-235
GroupTitle(index) ==
    IF index = 0 THEN "Pull Requests and Linear Tickets"
    ELSE "Pull Requests and Linear Tickets (" \o NumberToString(index + 1) \o ")"

FixedFields(env) ==
    <<[title |-> "Service", value |-> ServiceName, short |-> TRUE],
      [title |-> "Environment", value |-> calculateEnvironmentName(env),
       short |-> TRUE],
      [title |-> "Status", value |-> Status, short |-> TRUE]>>

\* Lines 190-246
BuildFields(list, nameMap, env) ==
    IF Len(list) > 0
    THEN LET prGroups == GroupLines(FlatMapLines(list, nameMap), 0, <<>>) IN
         FixedFields(env)
             \o [g \in 1..Len(prGroups) |->
                    [title |-> GroupTitle(g - 1),
                     value |-> Join(prGroups[g], "\n"),
                     short |-> FALSE]]
    ELSE FixedFields(env)
             \o <<[title |-> "Changes",
                   value |-> "No pull requests found for this deployment",
                   short |-> FALSE]>>

\* Math.floor(Date.now() / 1000)
UnixSeconds(now) == now \div 1000

\* Lines 248-256: the array returned, with the clock read at the return.
Attachments(fs, now) ==
    <<[color |-> Color, fields |-> fs,
       footer_icon |-> "https://github.githubassets.com/favicon.ico",
       footer |-> "<https://github.com/" \o Owner \o "/" \o Repo \o " | "
                     \o Owner \o "/" \o Repo \o ">",
       ts |-> UnixSeconds(now)]>>

(***************************************************************************)
(* The entry point: the chat call.                                         *)
(***************************************************************************)
ApiMethodAlwaysPost(mid) == "postMessage"

\* Boolean(messageId) ? "update" : "postMessage"
ApiMethod(mid) == IF mid # "" THEN "update" ELSE "postMessage"

\* Lines 36-43
ChatArgs(mid, built) ==
    IF mid # ""
    THEN [channel |-> ChannelId, attachments |-> built, ts |-> mid]
    ELSE [channel |-> ChannelId, attachments |-> built]


(***************************************************************************)
(* The invocation.                                                         *)
(***************************************************************************)
InitLocals ==
    /\ deployments = <<>>
    /\ depIdx = 0
    /\ statusLog = <<>>
    /\ successfulDeployments = <<>>
    /\ comparison = None
    /\ prLog = <<>>
    /\ recLog = <<>>
    /\ pullRequests = <<>>
    /\ prIdx = 0
    /\ linearTicketInfos = <<>>
    /\ branchTicketInfo = None
    /\ username = None
    /\ linkedPr = None
    /\ ticketIds = <<>>
    /\ issueCalls = <<>>
    /\ linked = NotRequested
    /\ userCalls = [u \in Logins |-> 0]
    /\ pending = {}
    /\ userErrors = {}
    /\ attachments = None
    /\ chatCalls = <<>>
    /\ chatResponse = None
    /\ output = None
    /\ failed = FALSE

\* index.js lines 9-20: the inputs are read and buildSlackAttachments has
\* called getCurrentDeployment, which awaits listDeployments.
Init ==
    /\ messageId \in MessageIds
    /\ environment = "prod"
    /\ linear = LinearFlaky
    /\ pc = "listDeployments"
    /\ resolverOutcome = "running"
    /\ sawSuccess = FALSE
    /\ currentDeployment = None
    /\ compareCalls = <<>>
    /\ commits = <<>>
    /\ commitIdx = 0
    /\ prCalls = <<>>
    /\ prs = <<>>
    /\ usernameToNameMap = <<>>
    /\ InitLocals

\* listDeployments answers (lines 281-291, 304-314).
ListDeployments ==
    /\ pc = "listDeployments"
    /\ \/ /\ resolverOutcome' = "error"
          /\ currentDeployment' = ResolverCatch(successfulDeployments)
          /\ pc' = "resolved"
          /\ UNCHANGED <<deployments, depIdx>>
       \/ \E ds \in DeploymentLists :
            /\ deployments' = ds
            /\ depIdx' = 1
            /\ IF ds = <<>>
               THEN /\ resolverOutcome' = "returned"
                    /\ currentDeployment' = LatestSuccessful(successfulDeployments)
                    /\ pc' = "resolved"
               ELSE /\ pc' = "listStatuses"
                    /\ UNCHANGED <<resolverOutcome, currentDeployment>>
    /\ UNCHANGED <<inputVars, statusLog, successfulDeployments, sawSuccess,
                   rangeVars, prVars, userVars, mainVars>>

\* listDeploymentStatuses answers for deployments[depIdx] (lines 292-314).
\* Behind the last deployment the array is sorted in place (line 305) and
\* its first element returned.
ListDeploymentStatuses ==
    /\ pc = "listStatuses"
    /\ \/ /\ resolverOutcome' = "error"
          /\ currentDeployment' = ResolverCatch(successfulDeployments)
          /\ pc' = "resolved"
          /\ UNCHANGED <<depIdx, statusLog, successfulDeployments, sawSuccess>>
       \/ \E statuses \in StatusLists :
            LET pushed == IF SomeSuccess(statuses)
                          THEN Append(successfulDeployments, deployments[depIdx])
                          ELSE successfulDeployments
            IN
            /\ statusLog' = Append(statusLog, statuses)
            /\ sawSuccess' = (sawSuccess \/ SomeSuccess(statuses))
            /\ depIdx' = depIdx + 1
            /\ IF depIdx = Len(deployments)
               THEN /\ successfulDeployments' = SortDeployments(pushed)
                    /\ resolverOutcome' = "returned"
                    /\ currentDeployment' = LatestSuccessful(pushed)
                    /\ pc' = "resolved"
               ELSE /\ successfulDeployments' = pushed
                    /\ pc' = "listStatuses"
                    /\ UNCHANGED <<resolverOutcome, currentDeployment>>
    /\ UNCHANGED <<inputVars, deployments, rangeVars, prVars, userVars, mainVars>>

\* buildSlackAttachments resumes with currentDeployment (lines 157-177): it
\* asks for the comparison, or calls getPRsForCommits with [{sha: newSha}].
ResumeAfterResolver ==
    /\ pc = "resolved"
    /\ deployments' = <<>>
    /\ depIdx' = 0
    /\ statusLog' = <<>>
    /\ successfulDeployments' = <<>>
    /\ commits' = <<[sha |-> NewSha]>>
    /\ IF currentDeployment # None
       THEN /\ compareCalls' = Append(compareCalls,
                                      [base |-> currentDeployment[1].sha,
                                       head |-> NewSha])
            /\ pc' = "compareCommits"
            /\ UNCHANGED <<commitIdx, prCalls>>
       ELSE /\ commitIdx' = 1
            /\ prCalls' = Append(prCalls, NewSha)
            /\ pc' = "listPRs"
            /\ UNCHANGED compareCalls
    /\ UNCHANGED <<inputVars, resolverOutcome, sawSuccess, currentDeployment,
                   comparison, prLog, recLog, prs, prLocals, userVars, mainVars>>

\* compareCommits answers (lines 317-333).
CompareCommits ==
    /\ pc = "compareCommits"
    /\ \/ /\ comparison' = <<Thrown>>
          /\ commits' = <<>>
       \/ \E cs \in ComparisonLists :
            /\ comparison' = <<Resolved([commits |-> cs])>>
            /\ commits' = FilterCommits(cs)
    /\ pc' = "ranged"
    /\ UNCHANGED <<inputVars, resolverVars, compareCalls, prVars, userVars,
                   mainVars>>

\* buildSlackAttachments resumes with commits and calls getPRsForCommits
\* (lines 170-177, 343-352).
ResumeAfterCommits ==
    /\ pc = "ranged"
    /\ comparison' = None
    /\ IF commits = <<>>
       THEN /\ pc' = "correlated"
            /\ UNCHANGED <<commitIdx, prCalls>>
       ELSE /\ commitIdx' = 1
            /\ prCalls' = Append(prCalls, commits[1].sha)
            /\ pc' = "listPRs"
    /\ UNCHANGED <<inputVars, resolverVars, compareCalls, commits, prLog, recLog,
                   prs, prLocals, userVars, mainVars>>

\* The pull requests the lookups have listed so far.
RECURSIVE Listed(_)
Listed(log) ==
    IF log = <<>> THEN 0 ELSE Len(Head(log).pullRequests) + Listed(Tail(log))

\* getPRsForCommits goes on to the await its frame f has reached.
Resume(f) ==
    /\ pc' = f.pc
    /\ commitIdx' = f.commitIdx
    /\ prCalls' = f.prCalls
    /\ recLog' = f.recLog
    /\ prs' = f.prs
    /\ pullRequests' = f.pullRequests
    /\ prIdx' = f.prIdx
    /\ linearTicketInfos' = f.linearTicketInfos
    /\ branchTicketInfo' = f.branchTicketInfo
    /\ username' = f.username
    /\ linkedPr' = f.linkedPr
    /\ ticketIds' = f.ticketIds
    /\ issueCalls' = f.issueCalls
    /\ linked' = f.linked

\* listPullRequestsAssociatedWithCommit answers for commits[commitIdx]
\* (lines 345-364, 438-443).
ListPRsForCommit ==
    /\ pc = "listPRs"
    /\ \/ /\ prLog' = Append(prLog, [sha |-> commits[commitIdx].sha, ok |-> FALSE,
                                     pullRequests |-> <<>>])
          /\ Resume(NextCommit([Frame EXCEPT !.commitIdx =
                                   CommitIdxAfterCatch(commitIdx, Len(commits))]))
       \/ \E list \in PullRequestLists(MaxPRs - Listed(prLog)) :
            /\ prLog' = Append(prLog, [sha |-> commits[commitIdx].sha, ok |-> TRUE,
                                       pullRequests |-> list])
            /\ Resume(NextPR([Frame EXCEPT !.pullRequests = list, !.prIdx = 1]))
    /\ UNCHANGED <<inputVars, resolverVars, rangeVars, userVars, mainVars>>

\* The frame once linearClient.issue(ticketId) has answered r at the await
\* where pc rests.
Called(ticketId, r) ==
    [Frame EXCEPT !.issueCalls =
        Append(@, [site |-> pc, ticketId |-> ticketId, answer |-> r])]

\* linearClient.issue answers the lookup of the head branch's ticket (lines
\* 360-368).
BranchTicketReturn ==
    /\ pc = "issueBranch"
    /\ LET ticketId == BranchTicketIdMatch(pullRequests[prIdx].head.ref)[1] IN
       \E r \in LinearIssue(linear, ticketId) :
          LET info == getLinearTicketInfo(r) IN
          Resume(AfterBranch([Called(ticketId, r) EXCEPT
                     !.branchTicketInfo = info,
                     !.linearTicketInfos = PushBranch(linearTicketInfos, info)]))
    /\ UNCHANGED <<inputVars, resolverVars, rangeVars, prLog, userVars, mainVars>>

\* linearClient.issue answers the lookup of a token of the title and body
\* (lines 371-380).
AdditionalTicketReturn ==
    /\ pc = "issueAdditional"
    /\ LET ticketId == BranchTicketIdMatch(Head(ticketIds))[1] IN
       \E r \in LinearIssue(linear, ticketId) :
          LET additionalTicketInfo == getLinearTicketInfo(r) IN
          Resume(AdditionalLoop([Called(ticketId, r) EXCEPT
                     !.linearTicketInfos =
                         PushAdditional(linearTicketInfos, additionalTicketInfo,
                                        branchTicketInfo),
                     !.ticketIds = Tail(ticketIds)]))
    /\ UNCHANGED <<inputVars, resolverVars, rangeVars, prLog, userVars, mainVars>>

\* octokit.pulls.get answers (lines 386-396, 422-426): the catch leaves the
\* author and the tickets as they are.
PullsGetReturn ==
    /\ pc = "pullsGet"
    /\ \E resp \in PullsGet(TitleIdMatch(pullRequests[prIdx].title)[1]) :
          LET f == [Frame EXCEPT !.linked = resp] IN
          IF ~resp.ok THEN Resume(AddRecord(f))
          ELSE LET g == [f EXCEPT !.linkedPr = <<resp.data>>,
                                  !.username = <<resp.data.user.login>>]
               IN  IF BranchTicketIdMatch(resp.data.head.ref) = None
                   THEN Resume(AfterLinkedBranch(g))
                   ELSE Resume([g EXCEPT !.pc = "issueLinkedBranch"])
    /\ UNCHANGED <<inputVars, resolverVars, rangeVars, prLog, userVars, mainVars>>

\* linearClient.issue answers the lookup of the linked pull request's branch
\* ticket (lines 393-407).
LinkedBranchTicketReturn ==
    /\ pc = "issueLinkedBranch"
    /\ LET ticketId == BranchTicketIdMatch(linkedPr[1].head.ref)[1] IN
       \E r \in LinearIssue(linear, ticketId) :
          LET linkedPrBranchTicketInfo == getLinearTicketInfo(r) IN
          Resume(AfterLinkedBranch([Called(ticketId, r) EXCEPT
                     !.linearTicketInfos =
                         PushUnseen(linearTicketInfos, linkedPrBranchTicketInfo)]))
    /\ UNCHANGED <<inputVars, resolverVars, rangeVars, prLog, userVars, mainVars>>

\* linearClient.issue answers the lookup of a token of linkedPrTickets
\* (lines 409-421).
LinkedAdditionalTicketReturn ==
    /\ pc = "issueLinkedAdditional"
    /\ LET ticketId == BranchTicketIdMatch(Head(ticketIds))[1] IN
       \E r \in LinearIssue(linear, ticketId) :
          LET additionalTicketInfo == getLinearTicketInfo(r) IN
          Resume(LinkedLoop([Called(ticketId, r) EXCEPT
                     !.linearTicketInfos =
                         PushUnseen(linearTicketInfos, additionalTicketInfo),
                     !.ticketIds = Tail(ticketIds)]))
    /\ UNCHANGED <<inputVars, resolverVars, rangeVars, prLog, userVars, mainVars>>

\* buildSlackAttachments resumes with prs (lines 179-187): every lookup of
\* Promise.all is requested at once; with no handle it goes on to the fields
\* and returns the attachment.
ResumeAfterPRs ==
    /\ pc = "correlated"
    /\ prLog' = <<>>
    /\ recLog' = <<>>
    /\ commitIdx' = 0
    /\ LET usernames == Usernames(prs) IN
       /\ userCalls' = [u \in Logins |-> userCalls[u] + Occurrences(usernames, u)]
       /\ pending' = {usernames[i] : i \in 1..Len(usernames)}
       /\ IF usernames = <<>>
          THEN /\ \E now \in ClockMillis :
                    attachments' =
                        Attachments(BuildFields(prs, usernameToNameMap, environment),
                                    now)
               /\ pc' = "built"
          ELSE /\ pc' = "users"
               /\ UNCHANGED attachments
    /\ UNCHANGED <<inputVars, resolverVars, rangeVars, prCalls, prs, prLocals,
                   userErrors, usernameToNameMap, chatCalls, chatResponse, output,
                   failed>>

SetName(nameMap, login, name) ==
    [x \in (DOMAIN nameMap) \cup {login} |-> IF x = login THEN name ELSE nameMap[x]]

\* users.getByUsername answers for one handle (lines 180-256).  A rejection
\* rejects Promise.all and buildSlackAttachments, and the catch of index.js
\* marks the invocation failed (lines 48-50).
UserLookup ==
    /\ pc = "users"
    /\ \E u \in pending :
         /\ pending' = pending \ {u}
         /\ \/ /\ userErrors' = userErrors \cup {u}
               /\ failed' = TRUE
               /\ pc' = "done"
               /\ UNCHANGED <<usernameToNameMap, attachments>>
            \/ \E name \in UserNames :
                 /\ usernameToNameMap' = SetName(usernameToNameMap, u, name)
                 /\ IF pending' = {}
                    THEN /\ \E now \in ClockMillis :
                              attachments' =
                                  Attachments(BuildFields(prs, usernameToNameMap',
                                                          environment), now)
                         /\ pc' = "built"
                    ELSE UNCHANGED <<attachments, pc>>
                 /\ UNCHANGED <<userErrors, failed>>
    /\ UNCHANGED <<inputVars, resolverVars, rangeVars, prVars, userCalls,
                   chatCalls, chatResponse, output>>

\* A lookup answers after Promise.all was rejected: nobody reads the answer.
UserLookupLate ==
    /\ pc = "done"
    /\ \E u \in pending :
         /\ pending' = pending \ {u}
         /\ \/ userErrors' = userErrors \cup {u}
            \/ UNCHANGED userErrors
    /\ UNCHANGED <<inputVars, pc, resolverVars, rangeVars, prVars, userCalls,
                   usernameToNameMap, mainVars>>

\* index.js resumes with the attachments and makes the chat call (lines 32-45).
ResumeMain ==
    /\ pc = "built"
    /\ chatCalls' = Append(chatCalls,
                           [method |-> ApiMethod(messageId),
                            args |-> ChatArgs(messageId, attachments)])
    /\ pc' = "awaitChat"
    /\ UNCHANGED <<inputVars, resolverVars, rangeVars, prVars, userVars,
                   attachments, chatResponse, output, failed>>

\* The chat call answers (lines 45-50).
ChatReturn ==
    /\ pc = "awaitChat"
    /\ \/ /\ chatResponse' = <<Thrown>>
          /\ failed' = TRUE
          /\ UNCHANGED output
       \/ \E ts \in ResponseTs :
            /\ chatResponse' = <<Resolved([ts |-> ts])>>
            /\ output' = <<ts>>
            /\ UNCHANGED failed
    /\ pc' = "done"
    /\ UNCHANGED <<inputVars, resolverVars, rangeVars, prVars, userVars,
                   attachments, chatCalls>>

Next ==
    \/ ListDeployments
    \/ ListDeploymentStatuses
    \/ ResumeAfterResolver
    \/ CompareCommits
    \/ ResumeAfterCommits
    \/ ListPRsForCommit
    \/ BranchTicketReturn
    \/ AdditionalTicketReturn
    \/ PullsGetReturn
    \/ LinkedBranchTicketReturn
    \/ LinkedAdditionalTicketReturn
    \/ ResumeAfterPRs
    \/ UserLookup
    \/ UserLookupLate
    \/ ResumeMain
    \/ ChatReturn

Spec == Init /\ [][Next]_vars


(***************************************************************************)
(* getPRsForCommits on its own: the invocation has reached the call, with  *)
(* [{sha: newSha}] or with the commits of a comparison, and a Linear whose *)
(* every call may throw.                                                   *)
(***************************************************************************)
CorrelatorInputs ==
    {<<[sha |-> NewSha]>>} \cup ({FilterCommits(cs) : cs \in ComparisonLists} \ {<<>>})

InitPRs ==
    /\ messageId = ""
    /\ environment = "prod"
    /\ linear = LinearFlaky
    /\ pc = "listPRs"
    /\ commits \in CorrelatorInputs
    /\ commitIdx = 1
    /\ prCalls = <<commits[1].sha>>
    /\ resolverOutcome = "returned"
    /\ sawSuccess = (commits # <<[sha |-> NewSha]>>)
    /\ currentDeployment = IF sawSuccess THEN <<Deployment(1, 1)>> ELSE None
    /\ compareCalls = IF sawSuccess
                      THEN <<[base |-> Deployment(1, 1).sha, head |-> NewSha]>>
                      ELSE <<>>
    /\ prs = <<>>
    /\ usernameToNameMap = <<>>
    /\ InitLocals

NextPRs ==
    \/ ListPRsForCommit
    \/ BranchTicketReturn
    \/ AdditionalTicketReturn
    \/ PullsGetReturn
    \/ LinkedBranchTicketReturn
    \/ LinkedAdditionalTicketReturn

SpecPRs == InitPRs /\ [][NextPRs]_vars

(***************************************************************************)
(* The fields on their own (lines 190-256): buildSlackAttachments has prs  *)
(* and the names, builds the fields and returns the attachment.            *)
(***************************************************************************)
FmtTickets(n) ==
    [k \in 1..n |->
        LET issue == Issue("T-" \o NumberToString(k)) IN
        [id |-> issue.identifier, url |-> issue.url, title |-> issue.title]]

FmtPR(number, n) ==
    LET pr == PR(number, "main", "work", "Change " \o NumberToString(number), "",
                 IF number % 2 = 1 THEN "ann" ELSE "bob")
    IN  [number |-> pr.number, title |-> pr.title, url |-> pr.html_url,
         username |-> pr.user.login, linearTickets |-> FmtTickets(n)]

FmtPRLists ==
    UNION {{[i \in 1..n |-> FmtPR(i, counts[i])]
            : counts \in [1..n -> 0..MaxFmtTickets]}
           : n \in 0..MaxFmtPRs}

InitFormat ==
    /\ messageId = ""
    /\ environment \in Environments
    /\ linear = LinearFlaky
    /\ pc = "format"
    /\ commits = <<>>
    /\ commitIdx = 0
    /\ prCalls = <<>>
    /\ resolverOutcome = "returned"
    /\ sawSuccess = FALSE
    /\ currentDeployment = None
    /\ compareCalls = <<>>
    /\ prs \in FmtPRLists
    /\ usernameToNameMap \in
           IF prs = <<>> THEN {<<>>}
           ELSE {[u \in {prs[i].username : i \in 1..Len(prs)} |-> name]
                 : name \in UserNames}
    /\ InitLocals

FormatFields ==
    /\ pc = "format"
    /\ \E now \in ClockMillis :
          attachments' =
              Attachments(BuildFields(prs, usernameToNameMap, environment), now)
    /\ pc' = "formatted"
    /\ UNCHANGED <<inputVars, resolverVars, rangeVars, prVars, userVars,
                   chatCalls, chatResponse, output, failed>>

NextFormat == FormatFields

SpecFormat == InitFormat /\ [][NextFormat]_vars


(***************************************************************************)
(* Properties.                                                             *)
(***************************************************************************)
\* Where getPRsForCommits waits for a call to answer.
InCorrelator == {"listPRs", "issueBranch", "issueAdditional", "pullsGet",
                 "issueLinkedBranch", "issueLinkedAdditional"}

BeforeChat == {"listDeployments", "listStatuses", "resolved", "compareCommits",
               "ranged", "correlated", "users", "built"} \cup InCorrelator

\* C1: when the attachments were built exactly one chat call is made, update
\* with ts = message_id when message_id is given and postMessage without ts
\* when it is not; the output is the ts of a successful response and is not
\* set before the call has answered.
ChatCallContract ==
    /\ Len(chatCalls) <= 1
    /\ pc \in BeforeChat => chatCalls = <<>>
    /\ attachments = None => chatCalls = <<>>
    /\ (attachments # None /\ pc \in {"awaitChat", "done"}) =>
          /\ Len(chatCalls) = 1
          /\ chatCalls[1].args.channel = ChannelId
          /\ chatCalls[1].args.attachments = attachments
          /\ IF messageId # ""
             THEN /\ chatCalls[1].method = "update"
                  /\ "ts" \in DOMAIN chatCalls[1].args
                  /\ chatCalls[1].args.ts = messageId
             ELSE /\ chatCalls[1].method = "postMessage"
                  /\ "ts" \notin DOMAIN chatCalls[1].args
    /\ chatResponse = None => output = None
    /\ chatResponse # None =>
          IF chatResponse[1].ok THEN output = <<chatResponse[1].data.ts>>
          ELSE output = None /\ failed

UpdateAnswered ==
    /\ pc = "done"
    /\ messageId # ""
    /\ Len(chatCalls) = 1
    /\ chatCalls[1].method = "update"
    /\ output # None
    /\ output # <<messageId>>

SuccessIdx ==
    {i \in 1..Len(statusLog) :
        \E k \in 1..Len(statusLog[i]) : statusLog[i][k].state = "success"}

\* C2: when no call failed, getCurrentDeployment returns a listed deployment
\* with a success status whose creation time no other such deployment
\* exceeds, and returns none exactly when no listed deployment has a success
\* status.
LatestSuccessReturned ==
    (pc = "resolved" /\ resolverOutcome = "returned") =>
        /\ Len(statusLog) = Len(deployments)
        /\ IF SuccessIdx = {} THEN currentDeployment = None
           ELSE /\ currentDeployment # None
                /\ \E i \in SuccessIdx :
                      /\ currentDeployment[1] = deployments[i]
                      /\ \A j \in SuccessIdx :
                            deployments[j].created_at <= deployments[i].created_at

LaterListedReturned ==
    /\ pc = "resolved"
    /\ resolverOutcome = "returned"
    /\ Len(deployments) = 2
    /\ SuccessIdx = {1, 2}
    /\ deployments[1].created_at < deployments[2].created_at
    /\ currentDeployment = <<deployments[2]>>

\* C3: when a call of getCurrentDeployment failed, or no listed deployment
\* had a success status, no deployment is returned, no comparison is
\* requested and the pull requests are looked up for the one commit
\* github.context.sha.
SingleCommitFallback ==
    (resolverOutcome = "error" \/ (resolverOutcome = "returned" /\ ~sawSuccess)) =>
        /\ currentDeployment = None
        /\ compareCalls = <<>>
        /\ pc \notin {"listDeployments", "listStatuses", "resolved"} =>
              /\ commits = <<[sha |-> NewSha]>>
              /\ prCalls = <<NewSha>>
        /\ pc = "correlated" => Len(prLog) = 1 /\ prLog[1].sha = NewSha

ErrorAfterSuccess ==
    /\ pc = "correlated"
    /\ resolverOutcome = "error"
    /\ sawSuccess
    /\ prCalls = <<NewSha>>

AtMostOneParent(commit) == Len(commit.parents) <= 1

\* C4: after a comparison that succeeded the commit list is the compared
\* commits with at most one parent, in order; after one that failed it is
\* empty.
MergeCommitsRemoved ==
    pc = "ranged" =>
        IF comparison[1].ok
        THEN commits = SelectSeq(comparison[1].data.commits, AtMostOneParent)
        ELSE commits = <<>>

\* C5: the ticket identifiers of every pull request record are pairwise
\* distinct.
TicketIdsDistinct ==
    \A i \in 1..Len(prs) :
        \A a, b \in 1..Len(prs[i].linearTickets) :
            a # b => prs[i].linearTickets[a].id # prs[i].linearTickets[b].id

\* The retained pull requests of the lookups that answered, in order.
RECURSIVE Flat(_)
Flat(log) ==
    IF log = <<>> THEN <<>>
    ELSE SelectSeq(Head(log).pullRequests, Retained) \o Flat(Tail(log))

TicketIdsOf(record) ==
    {record.linearTickets[k].id : k \in 1..Len(record.linearTickets)}

\* The ids looked up for a record once its linked pull request was fetched.
LookedUpForLinked(calls) ==
    {calls[k].ticketId :
        k \in {j \in 1..Len(calls) :
                  calls[j].site \in {"issueLinkedBranch", "issueLinkedAdditional"}}}

\* C6: when the linked pull request was fetched, the ticket of its head
\* branch and every token of its own title and body are looked up, and the
\* record holds every ticket a lookup made for the record resolved to.
LinkedTicketsIncluded ==
    \A i \in 1..Len(recLog) :
        recLog[i].linked.ok =>
            LET linkedFetched == recLog[i].linked.data
                calls == recLog[i].issueCalls
                tokens == TicketIdMatches(linkedFetched.title \o " "
                                              \o linkedFetched.body)
            IN  /\ BranchTicketIdMatch(linkedFetched.head.ref) # None =>
                      BranchTicketIdMatch(linkedFetched.head.ref)[1]
                          \in LookedUpForLinked(calls)
                /\ \A k \in 1..Len(tokens) : tokens[k] \in LookedUpForLinked(calls)
                /\ \A k \in 1..Len(calls) :
                      calls[k].answer.ok =>
                          calls[k].answer.data.identifier \in TicketIdsOf(prs[i])

\* C7: no failed lookup ends getPRsForCommits: every commit is looked up, in
\* order, the retained pull requests of every lookup that answered are the
\* records returned, whatever their ticket lookups answered, and a record
\* whose linked lookup failed keeps the author of its pull request.
LookupFailuresAbsorbed ==
    pc \in InCorrelator \cup {"correlated"} =>
        LET flat == Flat(prLog) IN
        /\ ~failed
        /\ Len(prLog) = IF pc \in {"listPRs", "correlated"} THEN commitIdx - 1
                        ELSE commitIdx
        /\ \A k \in 1..Len(prLog) : prLog[k].sha = commits[k].sha
        /\ pc = "correlated" => Len(prLog) = Len(commits)
        /\ Len(prs) = Len(recLog)
        /\ Len(prs) <= Len(flat)
        /\ pc \in {"listPRs", "correlated"} => Len(prs) = Len(flat)
        /\ \A i \in 1..Len(prs) :
              /\ recLog[i].pr = flat[i]
              /\ prs[i].number = flat[i].number
              /\ prs[i].title = flat[i].title
              /\ prs[i].url = flat[i].html_url
              /\ (recLog[i].linked.requested /\ ~recLog[i].linked.ok) =>
                     prs[i].username = flat[i].user.login

FailuresThenRecords ==
    /\ pc = "correlated"
    /\ Len(prLog) = 2
    /\ ~prLog[1].ok
    /\ prLog[2].ok
    /\ Len(prs) = 2
    /\ \E i \in 1..Len(prs) :
          recLog[i].linked = LinkedThrown /\ prs[i].username = recLog[i].pr.user.login
    /\ \E i \in 1..Len(prs) :
          \E k \in 1..Len(recLog[i].issueCalls) : ~recLog[i].issueCalls[k].answer.ok

\* C9: no two records of the returned list have the same pull request
\* number.
PRNumbersDistinct ==
    \A i, j \in 1..Len(prs) : i # j => prs[i].number # prs[j].number

\* C10: every author handle of the records is looked up once and no other
\* handle is looked up; a lookup that fails leaves no attachment, no chat
\* call and no output, and the invocation failed.
AuthorLookups ==
    /\ pc \in {"listDeployments", "listStatuses", "resolved", "compareCommits",
               "ranged", "correlated"} \cup InCorrelator =>
          \A u \in Logins : userCalls[u] = 0
    /\ pc \in {"users", "built", "awaitChat", "done"} =>
          \A u \in Logins :
              userCalls[u] = IF \E i \in 1..Len(prs) : prs[i].username = u
                             THEN 1 ELSE 0
    /\ userErrors # {} =>
          /\ pc = "done"
          /\ failed
          /\ attachments = None
          /\ chatCalls = <<>>
          /\ output = None

SharedHandleLookupFailed ==
    /\ pc = "done"
    /\ Len(prs) = 2
    /\ prs[1].username = prs[2].username
    /\ userErrors = {prs[1].username}
    /\ userCalls[prs[1].username] = 1
    /\ failed

\* value.split("\n")
RECURSIVE Pieces(_, _, _)
Pieces(v, from, breaks) ==
    IF breaks = {} THEN <<SubSeq(v, from, Len(v))>>
    ELSE LET b == CHOOSE x \in breaks : \A y \in breaks : x <= y IN
         <<SubSeq(v, from, b - 1)>> \o Pieces(v, b + 1, breaks \ {b})

LinesIn(v) == Pieces(v, 1, {i \in 1..Len(v) : Ch(v, i) = "\n"})

RECURSIVE AllLines(_)
AllLines(fs) ==
    IF fs = <<>> THEN <<>> ELSE LinesIn(Head(fs).value) \o AllLines(Tail(fs))

LineCount(record) ==
    IF Len(record.linearTickets) > 0 THEN Len(record.linearTickets) ELSE 1

RECURSIVE LinesBefore(_, _)
LinesBefore(list, i) ==
    IF i <= 1 THEN 0 ELSE LineCount(list[i - 1]) + LinesBefore(list, i - 1)

\* C8: behind the three fixed fields there is either the one "Changes"
\* field (no pull request) or ceil(L/8) group fields and no "Changes" field;
\* every group but the last has 8 lines, the last 1 to 8, the lines of the
\* groups in order are the lines of the pull requests in order, and the
\* k-th group is titled with the suffix (k) from the second on.
FieldsShape ==
    pc = "formatted" =>
        Len(attachments) = 1 /\
        LET fs == attachments[1].fields
            rest == SubSeq(fs, 4, Len(fs))
            total == LinesBefore(prs, Len(prs) + 1)
            lines == AllLines(rest)
        IN  /\ Len(fs) >= 4
            /\ <<fs[1].title, fs[2].title, fs[3].title>>
                   = <<"Service", "Environment", "Status">>
            /\ IF Len(prs) = 0
               THEN rest = <<[title |-> "Changes",
                              value |-> "No pull requests found for this deployment",
                              short |-> FALSE]>>
               ELSE /\ \A g \in 1..Len(rest) : rest[g].title # "Changes"
                    /\ Len(rest) = (total + 7) \div 8
                    /\ \A g \in 1..(Len(rest) - 1) : Len(LinesIn(rest[g].value)) = 8
                    /\ Len(LinesIn(rest[Len(rest)].value)) \in 1..8
                    /\ rest[1].title = "Pull Requests and Linear Tickets"
                    /\ \A g \in 2..Len(rest) :
                          rest[g].title = "Pull Requests and Linear Tickets ("
                                              \o NumberToString(g) \o ")"
                    /\ Len(lines) = total
                    /\ \A i \in 1..Len(prs) :
                          LET first == UserFirstName(usernameToNameMap, prs[i].username) IN
                          IF Len(prs[i].linearTickets) = 0
                          THEN lines[LinesBefore(prs, i) + 1] = NoTicketLine(prs[i], first)
                          ELSE \A j \in 1..Len(prs[i].linearTickets) :
                                  lines[LinesBefore(prs, i) + j]
                                      = TicketLine(prs[i].linearTickets[j], prs[i], first)

SecondGroupPartial ==
    /\ pc = "formatted"
    /\ Len(prs) = 2
    /\ Len(prs[1].linearTickets) = 0
    /\ Len(prs[2].linearTickets) = 9
    /\ Len(attachments) = 1
    /\ Len(attachments[1].fields) = 5
    /\ Len(LinesIn(attachments[1].fields[5].value)) = 2

====
